---- MODULE Spec2Model ----
(***************************************************************************)
(* Model of the mysql-operator cluster core:                               *)
(*   - cFactory.Sync, the ordered fail-fast reconciliation of the five     *)
(*     components followed by the best-effort orchestrator registration;   *)
(*   - MysqlCluster.GetHealtySlaveHost / GetMasterHost, the topology       *)
(*     resolver with its static fallback.                                  *)
(* The sync functions, the event recorder and the orchestrator client are  *)
(* external: their results are inputs, their calls are recorded.           *)
(***************************************************************************)
EXTENDS Integers, Sequences, FiniteSets, TLC

(* ------------------------------ bounds --------------------------------- *)

\* Status.ReadyNodes ranges over 0..MaxReady.
MaxReady == 3

\* The orchestrator answers a replica query with at most MaxReplicas instances.
MaxReplicas == 3

(* ----------------------------- constants ------------------------------- *)

\* A nil error.
Nil == "<nil>"

\* The return value of a Sync call that has not returned yet.
Pending == "<running>"

\* No resolver call has returned a host yet.
NoHost == "<none>"

statusUpToDate == "up-to-date"
statusCreated == "created"
statusUpdated == "updated"
statusFailed == "faild"
statusOk == "ok"
statusSkip == "skip"

\* Every status string a syncFn can hand back.
SyncStates ==
    {statusUpToDate, statusCreated, statusUpdated, statusFailed, statusOk, statusSkip}

\* The error messages a syncFn or the orchestrator client can fail with.
ErrMsgs == {"conflict"}

EventWarning == "Warning"
EventNormal == "Normal"

\* SecondsBehindMaster.Int64 <= LagLimit qualifies a replica.
LagLimit == 5

(* --------------------------- input domains ----------------------------- *)

ClusterNames == {"db", "shop"}

Namespaces == {"prod"}

OrcUris == {"", "http://orc:3000/api"}

Clusters ==
    [Name : ClusterNames, Namespace : Namespaces,
     Spec : [SecretName : {"the-secret"}],
     Status : [ReadyNodes : 0..MaxReady]]

\* sql.NullInt64: an unknown lag is Valid = FALSE with Int64 = 0.
NullInt64s ==
    {[Valid |-> FALSE, Int64 |-> 0]}
        \cup [Valid : {TRUE}, Int64 : (LagLimit - 1)..(LagLimit + 1)]

\* The orchestrator lists every replica once: the k-th instance is host replica-k.
OrcHostname(k) == "replica-" \o ToString(k)

\* The replica lists of length at most n, with every combination of lags.
ReplicaLists(n) ==
    UNION {{[i \in 1..k |->
                [Key |-> [Hostname |-> OrcHostname(i)], SecondsBehindMaster |-> lags[i]]]
            : lags \in [1..k -> NullInt64s]} : k \in 0..n}

\* What ClusterOSCReplicas can return: an error, or a list of instances.
ReplicaAnswers ==
    [err : ErrMsgs, replicas : {<<>>}]
        \cup [err : {Nil}, replicas : ReplicaLists(MaxReplicas)]

\* What Master can return: an error, or an instance.
NoInstance == [Key |-> [Hostname |-> ""]]

MasterAnswers ==
    [err : ErrMsgs, inst : {NoInstance}]
        \cup [err : {Nil}, inst : [Key : [Hostname : {"master-x", "master-y"}]]]

(* ------------------------------- state --------------------------------- *)

VARIABLES
    cluster,       \* the MysqlCluster the factory and the resolver work on
    opt,           \* the global options, set once at start
    pc,            \* position of the Sync call: "new", "loop", "register", "done"
    idx,           \* 1-based position of the next component in getComponents()
    invoked,       \* aliases of the components whose syncFn ran in this call
    results,       \* what each of those syncFn calls returned
    events,        \* the events recorded through f.rec in this call
    regI,          \* the registration loop's i
    discovered,    \* the Discover calls made in this call
    ret,           \* what the Sync call returned
    orcReplicas,   \* the orchestrator's answer to a replica query at the last GetHealtySlaveHost
    slaveQueried,  \* whether that call asked the orchestrator
    slaveHost,     \* what that call returned
    orcMaster,     \* the orchestrator's answer to a master query at the last GetMasterHost
    masterQueried, \* whether that call asked the orchestrator
    masterHost,    \* what that call returned
    hist,          \* the ClusterSpec before and after each UpdateDefaults call, oldest first
    ctx,           \* the context handed to Sync: whether it is cancelled, and when it was
    peer,          \* the factory of another cluster whose Sync runs concurrently
    called,        \* the resolver operation called last
    prevSlaveHost, \* what the GetHealtySlaveHost call before the last one returned
    prevCall       \* the units invoked and the value returned by the previous Sync call

syncVars == <<pc, idx, invoked, results, events, regI, discovered, ret>>

resolverVars ==
    <<orcReplicas, slaveQueried, slaveHost, orcMaster, masterQueried, masterHost>>

\* What neither Sync nor the resolver writes.
extVars == <<hist, ctx, peer, called, prevSlaveHost, prevCall>>

vars == <<cluster, opt, syncVars, resolverVars, extVars>>

(* ------------------------------ naming --------------------------------- *)

GetNameForResource(name, clusterName) == clusterName \o "-mysql"

HeadlessSVC == "headless"
StatefulSet == "mysql"
ConfigMap == "config-files"
BackupCronJob == "backup-cron"

ClusterGetNameForResource(c, name) ==
    IF name \in {HeadlessSVC, StatefulSet, ConfigMap, BackupCronJob}
    THEN GetNameForResource(name, c.Name)
    ELSE GetNameForResource(name, c.Name)

GetOrcUri == opt.OrchestratorUri

getHostForReplica(c, no) ==
    ClusterGetNameForResource(c, StatefulSet) \o "-" \o ToString(no) \o "."
        \o ClusterGetNameForResource(c, HeadlessSVC) \o "." \o c.Namespace

GetPodHostName(c, p) ==
    LET pod == ClusterGetNameForResource(c, StatefulSet) \o "-" \o ToString(p)
    IN  pod \o "." \o ClusterGetNameForResource(c, HeadlessSVC)

(* ---------------------------- cFactory.Sync ---------------------------- *)

\* Mutant: the statefulset is listed before the headless service.
getComponents_Swapped(c) ==
    << [alias |-> "cluster-secret", name |-> c.Spec.SecretName,
        reasonFailed |-> "DbSecretFailed", reasonUpdated |-> "DbSecretUpdated"],
       [alias |-> "config-map", name |-> ClusterGetNameForResource(c, ConfigMap),
        reasonFailed |-> "ConfigMapFailed", reasonUpdated |-> "ConfigMapUpdated"],
       [alias |-> "statefulset", name |-> ClusterGetNameForResource(c, StatefulSet),
        reasonFailed |-> "SFSFailed", reasonUpdated |-> "SFSUpdated"],
       [alias |-> "headless-service", name |-> ClusterGetNameForResource(c, HeadlessSVC),
        reasonFailed |-> "ServiceFailed", reasonUpdated |-> "ServiceUpdated"],
       [alias |-> "backup-cron-job", name |-> ClusterGetNameForResource(c, BackupCronJob),
        reasonFailed |-> "CronJobFailed", reasonUpdated |-> "CronJobUpdated"] >>

getComponents(c) ==
    << [alias |-> "cluster-secret", name |-> c.Spec.SecretName,
        reasonFailed |-> "DbSecretFailed", reasonUpdated |-> "DbSecretUpdated"],
       [alias |-> "config-map", name |-> ClusterGetNameForResource(c, ConfigMap),
        reasonFailed |-> "ConfigMapFailed", reasonUpdated |-> "ConfigMapUpdated"],
       [alias |-> "headless-service", name |-> ClusterGetNameForResource(c, HeadlessSVC),
        reasonFailed |-> "ServiceFailed", reasonUpdated |-> "ServiceUpdated"],
       [alias |-> "statefulset", name |-> ClusterGetNameForResource(c, StatefulSet),
        reasonFailed |-> "SFSFailed", reasonUpdated |-> "SFSUpdated"],
       [alias |-> "backup-cron-job", name |-> ClusterGetNameForResource(c, BackupCronJob),
        reasonFailed |-> "CronJobFailed", reasonUpdated |-> "CronJobUpdated"] >>

Event(type, reason, message) == [type |-> type, reason |-> reason, message |-> message]

\* The error Sync returns for a component whose syncFn failed with err.
WrapError(comp, err) == comp.name \o " sync failed: " \o err

\* Mutant: the loop goes on to the next component after a failure.
SyncReturnsOn_Never(err) == FALSE

\* Whether the loop over the components returns after a syncFn result.
SyncReturnsOn(err) == err # Nil

\* Mutant: the failure event carries the component's update reason.
SyncEvents_WrongReason(evs, comp, state, err) ==
    IF err # Nil
    THEN Append(evs, [type |-> EventWarning, reason |-> comp.reasonUpdated,
                      message |-> comp.name \o " sync failed: " \o err])
    ELSE IF state \in {statusCreated, statusUpdated}
         THEN Append(evs, [type |-> EventNormal, reason |-> comp.reasonUpdated, message |-> ""])
         ELSE evs

\* Mutant: every successful sync records an update event, whatever its state.
SyncEvents_Always(evs, comp, state, err) ==
    IF err # Nil
    THEN Append(evs, [type |-> EventWarning, reason |-> comp.reasonFailed,
                      message |-> comp.name \o " sync failed: " \o err])
    ELSE Append(evs, [type |-> EventNormal, reason |-> comp.reasonUpdated, message |-> ""])

\* The events recorded once a component's syncFn returned (state, err).
SyncEvents(evs, comp, state, err) ==
    IF err # Nil
    THEN Append(evs, Event(EventWarning, comp.reasonFailed, WrapError(comp, err)))
    ELSE IF state \in {statusCreated, statusUpdated}
         THEN Append(evs, Event(EventNormal, comp.reasonUpdated, ""))
         ELSE evs

\* Mutant: the nodes are registered whether or not an orchestrator is set.
RegistersNodes_Always(uri) == TRUE

\* Whether the nodes are registered in the orchestrator after the loop.
RegistersNodes(uri) == uri # ""

\* Whether the registration loop has another node to discover.
MoreToDiscover(i, c) == i < c.Status.ReadyNodes

\* Mutant: a Discover failure is returned to the caller.
ReturnOnDiscover_Propagate(err) == IF err # Nil THEN err ELSE Pending

\* Mutant: a Discover failure ends the registration loop, and Sync returns nil.
ReturnOnDiscover_Break(err) == IF err # Nil THEN Nil ELSE Pending

\* What Sync returns on a Discover result: a failure is logged, nothing returned.
ReturnOnDiscover(err) == Pending

\* A factory right after New, for cluster c.
NewFactory(c) ==
    [cluster |-> c, pc |-> "new", idx |-> 1, invoked |-> <<>>, results |-> <<>>,
     events |-> <<>>, regI |-> 0, discovered |-> <<>>, ret |-> Pending]

\* No concurrent factory.
NoPeer == [pc |-> "none"]

\* The factory is built and its Sync not yet called.
InitSync ==
    /\ pc = "new"
    /\ idx = 1
    /\ invoked = <<>>
    /\ results = <<>>
    /\ events = <<>>
    /\ regI = 0
    /\ discovered = <<>>
    /\ ret = Pending
    /\ ctx = [done |-> FALSE, at |-> 0]
    /\ prevCall = [invoked |-> <<>>, ret |-> Pending]

\* No resolver call was made yet.
InitResolver ==
    /\ orcReplicas = [err |-> Nil, replicas |-> <<>>]
    /\ slaveQueried = FALSE
    /\ slaveHost = NoHost
    /\ orcMaster = [err |-> Nil, inst |-> NoInstance]
    /\ masterQueried = FALSE
    /\ masterHost = NoHost
    /\ called = "none"
    /\ prevSlaveHost = NoHost

Init ==
    /\ cluster \in Clusters
    /\ opt \in [OrchestratorUri : OrcUris]
    /\ InitSync
    /\ InitResolver
    /\ hist = <<>>
    /\ peer = NoPeer

\* New: a factory is built for the cluster, for one Sync call.
New ==
    /\ pc = "done"
    /\ pc' = "new"
    /\ idx' = 1
    /\ invoked' = <<>>
    /\ results' = <<>>
    /\ events' = <<>>
    /\ regI' = 0
    /\ discovered' = <<>>
    /\ ret' = Pending
    /\ UNCHANGED <<cluster, opt, resolverVars, extVars>>

\* Sync is called: the loop starts with the first component.
SyncBegin ==
    /\ pc = "new"
    /\ pc' = "loop"
    /\ UNCHANGED <<cluster, opt, idx, invoked, results, events, regI, discovered, ret,
                   resolverVars, extVars>>

\* One iteration of the loop over getComponents(): the syncFn returns (state, err).
SyncComponent(state, err) ==
    /\ pc = "loop"
    /\ idx <= Len(getComponents(cluster))
    /\ LET comp == getComponents(cluster)[idx] IN
        /\ invoked' = Append(invoked, comp.alias)
        /\ results' = Append(results, [state |-> state, err |-> err])
        /\ events' = SyncEvents(events, comp, state, err)
        /\ IF SyncReturnsOn(err)
           THEN /\ ret' = WrapError(comp, err)
                /\ pc' = "done"
                /\ idx' = idx
           ELSE /\ ret' = ret
                /\ idx' = idx + 1
                /\ pc' = IF idx < Len(getComponents(cluster)) THEN "loop" ELSE "register"
    /\ UNCHANGED <<cluster, opt, regI, discovered, resolverVars, extVars>>

\* One iteration of the registration loop: Discover returns err.
SyncDiscover(err) ==
    /\ pc = "register"
    /\ RegistersNodes(GetOrcUri)
    /\ MoreToDiscover(regI, cluster)
    /\ discovered' = Append(discovered, [host |-> getHostForReplica(cluster, regI), err |-> err])
    /\ regI' = regI + 1
    /\ ret' = ReturnOnDiscover(err)
    /\ pc' = IF ret' = Pending THEN "register" ELSE "done"
    /\ UNCHANGED <<cluster, opt, idx, invoked, results, events, resolverVars, extVars>>

\* The end of Sync: return nil.
SyncReturnNil ==
    /\ pc = "register"
    /\ ~(RegistersNodes(GetOrcUri) /\ MoreToDiscover(regI, cluster))
    /\ ret' = Nil
    /\ pc' = "done"
    /\ UNCHANGED <<cluster, opt, idx, invoked, results, events, regI, discovered,
                   resolverVars, extVars>>

Next ==
    \/ New
    \/ SyncBegin
    \/ \E state \in SyncStates, err \in ErrMsgs \cup {Nil} : SyncComponent(state, err)
    \/ \E err \in ErrMsgs \cup {Nil} : SyncDiscover(err)
    \/ SyncReturnNil

Spec == Init /\ [][Next]_vars

(* ------------------------- topology resolver --------------------------- *)

\* Mutant: a replica whose lag is unknown is judged by the zero Int64.
IsHealthy_IgnoresValid(r) == r.SecondsBehindMaster.Int64 <= LagLimit

\* Whether the loop of GetHealtySlaveHost takes replica r as the host.
IsHealthy(r) == r.SecondsBehindMaster.Valid /\ r.SecondsBehindMaster.Int64 <= LagLimit

RECURSIVE PickReplica_First(_, _)
\* Mutant: the loop stops at the first healthy replica.
PickReplica_First(host, replicas) ==
    IF replicas = <<>>
    THEN host
    ELSE IF Head(replicas).SecondsBehindMaster.Valid
            /\ Head(replicas).SecondsBehindMaster.Int64 <= LagLimit
         THEN Head(replicas).Key.Hostname
         ELSE PickReplica_First(host, Tail(replicas))

RECURSIVE PickReplica(_, _)
\* The loop over the replicas, front to back: every healthy one overwrites host.
PickReplica(host, replicas) ==
    IF replicas = <<>>
    THEN host
    ELSE PickReplica(IF IsHealthy(Head(replicas)) THEN Head(replicas).Key.Hostname ELSE host,
                     Tail(replicas))

\* Mutant: a failed query is answered with the host the call before returned.
GetHealtySlaveHost_Remembered(c, uri, ans) ==
    IF c.Status.ReadyNodes < 1
    THEN [host |-> GetPodHostName(c, 0), queried |-> FALSE]
    ELSE LET host == GetPodHostName(c, c.Status.ReadyNodes - 1) IN
         IF uri # ""
         THEN IF ans.err # Nil
              THEN [host |-> IF slaveHost # NoHost THEN slaveHost ELSE host, queried |-> TRUE]
              ELSE [host |-> PickReplica(host, ans.replicas), queried |-> TRUE]
         ELSE [host |-> host, queried |-> FALSE]

\* ans is what ClusterOSCReplicas returns if it is called.
GetHealtySlaveHost(c, uri, ans) ==
    IF c.Status.ReadyNodes < 1
    THEN [host |-> GetPodHostName(c, 0), queried |-> FALSE]
    ELSE LET host == GetPodHostName(c, c.Status.ReadyNodes - 1) IN
         IF uri # ""
         THEN IF ans.err # Nil
              THEN [host |-> host, queried |-> TRUE]
              ELSE [host |-> PickReplica(host, ans.replicas), queried |-> TRUE]
         ELSE [host |-> host, queried |-> FALSE]

\* Mutant: the instance is used without looking at the error.
GetMasterHost_IgnoresErr(c, uri, ans) ==
    IF uri # ""
    THEN [host |-> ans.inst.Key.Hostname, queried |-> TRUE]
    ELSE [host |-> c.Name \o "-mysql-0." \o c.Name \o "-mysql", queried |-> FALSE]

\* ans is what Master returns if it is called.
GetMasterHost(c, uri, ans) ==
    LET masterHost0 == GetPodHostName(c, 0) IN
    IF uri # ""
    THEN IF ans.err = Nil
         THEN [host |-> ans.inst.Key.Hostname, queried |-> TRUE]
         ELSE [host |-> masterHost0, queried |-> TRUE]
    ELSE [host |-> masterHost0, queried |-> FALSE]

\* A caller asks for a healthy slave while the orchestrator would answer ans.
HealtySlaveHostCall(ans) ==
    /\ orcReplicas' = ans
    /\ slaveQueried' = GetHealtySlaveHost(cluster, GetOrcUri, ans).queried
    /\ slaveHost' = GetHealtySlaveHost(cluster, GetOrcUri, ans).host
    /\ UNCHANGED <<cluster, opt, syncVars, orcMaster, masterQueried, masterHost, extVars>>

\* A caller asks for the master while the orchestrator would answer ans.
MasterHostCall(ans) ==
    /\ orcMaster' = ans
    /\ masterQueried' = GetMasterHost(cluster, GetOrcUri, ans).queried
    /\ masterHost' = GetMasterHost(cluster, GetOrcUri, ans).host
    /\ UNCHANGED <<cluster, opt, syncVars, orcReplicas, slaveQueried, slaveHost, extVars>>

NextResolver ==
    \/ \E ans \in ReplicaAnswers : HealtySlaveHostCall(ans)
    \/ \E ans \in MasterAnswers : MasterHostCall(ans)

SpecResolver == Init /\ [][NextResolver]_vars

(* ------------------------ properties of Sync --------------------------- *)

\* The order of the units, by alias.
UnitOrder ==
    <<"cluster-secret", "config-map", "headless-service", "statefulset", "backup-cron-job">>

\* The failure-event-kind of each unit, in that order.
FailureKind ==
    <<"DbSecretFailed", "ConfigMapFailed", "ServiceFailed", "SFSFailed", "CronJobFailed">>

\* The update-event-kind of each unit, in that order.
UpdateKind ==
    <<"DbSecretUpdated", "ConfigMapUpdated", "ServiceUpdated", "SFSUpdated", "CronJobUpdated">>

\* The positions of the units whose syncFn returned an error in this call.
FailedUnits == {i \in 1..Len(results) : results[i].err # Nil}

\* All five units ran in this call and none returned an error.
AllUnitsSucceeded == Len(results) = Len(UnitOrder) /\ FailedUnits = {}

\* The positions in events of the events unit k caused.
EventsOfUnit(k) ==
    {e \in 1..Len(events) : events[e].reason \in {FailureKind[k], UpdateKind[k]}}

\* <workloadName>-<i>.<networkEndpointName> for the cluster, both names <clusterName>-mysql.
MemberPodHost(i) ==
    cluster.Name \o "-mysql-" \o ToString(i) \o "." \o cluster.Name \o "-mysql"

\* C1: fail-fast. Once the i-th unit's syncFn has returned an error in a Sync
\* call, no unit at a later position has been invoked in that call, and the call
\* has returned a non-nil error.
C1_FailFast ==
    \A i \in FailedUnits :
        /\ i \in 1..Len(UnitOrder)
        /\ Len(invoked) = i
        /\ pc = "done"
        /\ ret \notin {Nil, Pending}

\* C1 witness: the third unit failed and the call returned.
C1_Witness == pc = "done" /\ Len(results) = 3 /\ results[3].err # Nil

\* C2: fixed order without retry. The units invoked in a Sync call are a prefix
\* of secret, configuration, network endpoint, workload, backup schedule, each
\* once, and every unit before the last invoked one returned without error.
C2_FixedOrder ==
    /\ Len(invoked) <= Len(UnitOrder)
    /\ invoked = SubSeq(UnitOrder, 1, Len(invoked))
    /\ Len(results) = Len(invoked)
    /\ \A k \in 1..(Len(invoked) - 1) : results[k].err = Nil

\* C2 witness: all five units were invoked and the call returned.
C2_Witness == pc = "done" /\ Len(invoked) = 5

\* C3: failure event. In a call in which unit i failed there is exactly one
\* Warning event, it is the last event, its reason is unit i's failure kind, and
\* no unit after i caused an event; with no failed unit there is no Warning event.
C3_FailureEvent ==
    LET warnings == {e \in 1..Len(events) : events[e].type = "Warning"} IN
    /\ FailedUnits = {} => warnings = {}
    /\ \A i \in FailedUnits :
        /\ warnings = {Len(events)}
        /\ events[Len(events)].reason = FailureKind[i]
        /\ \A k \in (i + 1)..Len(UnitOrder) : EventsOfUnit(k) = {}

\* C3 witness: two units were created, the third failed.
C3_Witness ==
    /\ pc = "done"
    /\ Len(results) = 3
    /\ results[3].err # Nil
    /\ Len(events) = 3

\* C4: events per unit. Every unit causes at most one event in a call; a unit
\* that succeeded with created or updated caused exactly one Normal event with
\* its update kind; a unit that succeeded with up-to-date or skip caused none.
C4_EventsPerUnit ==
    \A k \in 1..Len(UnitOrder) :
        /\ Cardinality(EventsOfUnit(k)) <= 1
        /\ k > Len(results) => EventsOfUnit(k) = {}
        /\ (k <= Len(results) /\ results[k].err = Nil) =>
            /\ results[k].state \in {"created", "updated"} =>
                \E e \in 1..Len(events) :
                    /\ EventsOfUnit(k) = {e}
                    /\ events[e].type = "Normal"
                    /\ events[e].reason = UpdateKind[k]
            /\ results[k].state \in {"up-to-date", "skip"} => EventsOfUnit(k) = {}

\* C4 witness: a call with units created, updated, up-to-date and skipped.
C4_Witness ==
    /\ pc = "done"
    /\ Len(results) = 5
    /\ results[1].state = "created" /\ results[2].state = "up-to-date"
    /\ results[3].state = "updated" /\ results[4].state = "skip"
    /\ results[5].state = "created"
    /\ Len(events) = 3

\* C5: return value. A Sync call that has returned returned nil exactly when all
\* five units returned without error, whatever the Discover calls returned.
C5_ReturnValue ==
    /\ pc = "done" => (ret = Nil <=> AllUnitsSucceeded)
    /\ pc # "done" => ret = Pending

\* C5 witness: the call returned nil although a Discover call failed.
C5_Witness ==
    /\ pc = "done"
    /\ ret = Nil
    /\ \E k \in 1..Len(discovered) : discovered[k].err # Nil

\* C6: best-effort registration. With an orchestrator configured, a call in
\* which all five units succeeded and that has returned made exactly one
\* Discover call per member 0..N-1, in increasing order, with the member's
\* hostname, whichever of them failed; before that the calls made are a prefix.
C6_Registration ==
    (GetOrcUri # "" /\ AllUnitsSucceeded) =>
        /\ Len(discovered) <= cluster.Status.ReadyNodes
        /\ pc = "done" => Len(discovered) = cluster.Status.ReadyNodes
        /\ \A k \in 1..Len(discovered) :
            discovered[k].host = MemberPodHost(k - 1) \o "." \o cluster.Namespace

\* C6 witness: three members, the Discover call of the second one failed.
C6_Witness ==
    /\ pc = "done"
    /\ Len(discovered) = 3
    /\ discovered[1].err = Nil /\ discovered[2].err # Nil /\ discovered[3].err = Nil

\* C7: registration gating. A Discover call has been made in a call only if all
\* five units returned without error and an orchestrator is configured.
C7_Gating ==
    /\ discovered # <<>> => (AllUnitsSucceeded /\ GetOrcUri # "")
    /\ pc \in {"new", "loop"} => discovered = <<>>

\* C7 witness: no orchestrator, ready members, the call returned without a Discover.
C7_Witness ==
    /\ pc = "done"
    /\ ret = Nil
    /\ GetOrcUri = ""
    /\ cluster.Status.ReadyNodes > 0
    /\ discovered = <<>>

(* -------------------- properties of the resolver ----------------------- *)

\* The positions in the orchestrator's replica list whose lag is known and <= 5 s.
Qualifying ==
    {k \in 1..Len(orcReplicas.replicas) :
        /\ orcReplicas.replicas[k].SecondsBehindMaster.Valid = TRUE
        /\ orcReplicas.replicas[k].SecondsBehindMaster.Int64 <= 5}

\* The hostname of the last qualifying instance of the list.
LastQualifyingHost ==
    LET last == CHOOSE k \in Qualifying : \A j \in Qualifying : j <= k
    IN  orcReplicas.replicas[last].Key.Hostname

\* The static default of the healthy-secondary resolution.
StaticSecondary ==
    IF cluster.Status.ReadyNodes >= 1
    THEN MemberPodHost(cluster.Status.ReadyNodes - 1)
    ELSE MemberPodHost(0)

\* A GetHealtySlaveHost call returned while the orchestrator was configured and
\* answered the replica query with a list.
SecondaryAnswered == slaveHost # NoHost /\ GetOrcUri # "" /\ orcReplicas.err = Nil

\* C8 as claimed: with an orchestrator configured whose replica query succeeds
\* with at least one qualifying instance, GetHealtySlaveHost returns the last
\* qualifying instance's hostname for every ready-count, 0 included.
C8_LastQualifyingAnyReadyCount ==
    (SecondaryAnswered /\ Qualifying # {}) => slaveHost = LastQualifyingHost

\* C8 as amended: the same for every ready-count >= 1; with ready-count 0 the
\* orchestrator is not queried and member 0's hostname is returned; a listed
\* instance with unknown lag or lag > 5 is never the result.
C8_LastQualifying ==
    SecondaryAnswered =>
        /\ (cluster.Status.ReadyNodes >= 1 /\ Qualifying # {}) =>
                (slaveQueried /\ slaveHost = LastQualifyingHost)
        /\ cluster.Status.ReadyNodes < 1 => (~slaveQueried /\ slaveHost = MemberPodHost(0))
        /\ \A k \in 1..Len(orcReplicas.replicas) :
                slaveHost = orcReplicas.replicas[k].Key.Hostname => k \in Qualifying

\* C8 witness: two qualifying replicas, the first with the smaller lag, then a
\* lagging one; the second is returned.
C8_Witness ==
    /\ SecondaryAnswered
    /\ cluster.Status.ReadyNodes >= 1
    /\ Len(orcReplicas.replicas) = 3
    /\ orcReplicas.replicas[1].SecondsBehindMaster = [Valid |-> TRUE, Int64 |-> 4]
    /\ orcReplicas.replicas[2].SecondsBehindMaster = [Valid |-> TRUE, Int64 |-> 5]
    /\ orcReplicas.replicas[3].SecondsBehindMaster = [Valid |-> TRUE, Int64 |-> 6]
    /\ slaveHost = "replica-2"

\* C9: secondary fallback. GetHealtySlaveHost returns the static default (member
\* ready-count - 1, or member 0 with ready-count 0) when no orchestrator is
\* configured, when the replica query fails, and when no listed instance
\* qualifies; what it returns is a hostname, never an error.
C9_SecondaryFallback ==
    slaveHost # NoHost =>
        /\ (GetOrcUri = "" \/ orcReplicas.err # Nil \/ Qualifying = {}) =>
                slaveHost = StaticSecondary
        /\ slaveHost \notin ErrMsgs \cup {Nil, ""}

\* C9 witness: the orchestrator lists replicas, none qualifies, member 2 is returned.
C9_Witness ==
    /\ SecondaryAnswered
    /\ slaveQueried
    /\ orcReplicas.replicas # <<>>
    /\ Qualifying = {}
    /\ cluster.Status.ReadyNodes = 3
    /\ slaveHost = cluster.Name \o "-mysql-2." \o cluster.Name \o "-mysql"

\* C10: GetMasterHost returns the hostname the orchestrator reports when one is
\* configured and its master query succeeds, and member 0's hostname when none
\* is configured or the query fails, for every ready-count.
C10_Primary ==
    masterHost # NoHost =>
        IF GetOrcUri # "" /\ orcMaster.err = Nil
        THEN masterQueried /\ masterHost = orcMaster.inst.Key.Hostname
        ELSE masterHost = MemberPodHost(0)

\* C10 witness: the master query failed with several members ready.
C10_Witness ==
    /\ masterQueried
    /\ orcMaster.err # Nil
    /\ cluster.Status.ReadyNodes >= 2
    /\ masterHost = cluster.Name \o "-mysql-0." \o cluster.Name \o "-mysql"

(* ---------------------------- int64 values ----------------------------- *)

\* An int64 byte count v is kept as two limbs, v = hi * Base + lo with
\* 0 <= lo < Base, because the checker's integers are 32 bits wide.
Base == 2^20

I64(hi, lo) == [hi |-> hi, lo |-> lo]

Norm(hi, lo) == I64(hi + (lo \div Base), lo % Base)

\* k * v, for a small k >= 0.
Times(k, v) == Norm(k * v.hi, k * v.lo)

\* v + d, for a small d with v + d >= 0.
Plus(v, d) == Norm(v.hi, v.lo + d)

Less(a, b) == a.hi < b.hi \/ (a.hi = b.hi /\ a.lo < b.lo)

LessEq(a, b) == ~Less(b, a)

\* int64(float64(v) * n / 4) for n = 2 (0.5) and n = 3 (0.75): the product is
\* exact in a float64 for these sizes, and the conversion truncates.
Quarters(n, v) ==
    LET t == Times(n, v)
    IN  I64(t.hi \div 4, (((t.hi % 4) * Base) + t.lo) \div 4)

\* Six decimal digits of u, 0 <= u < 10^6.
Pad6(u) ==
    IF u < 10 THEN "00000" \o ToString(u)
    ELSE IF u < 100 THEN "0000" \o ToString(u)
    ELSE IF u < 1000 THEN "000" \o ToString(u)
    ELSE IF u < 10000 THEN "00" \o ToString(u)
    ELSE IF u < 100000 THEN "0" \o ToString(u)
    ELSE ToString(u)

\* strconv.FormatInt(v, 10) for v >= 0: Base = 10^6 + 48576, and the two limbs
\* are carried over to the limbs of base 10^6.
FormatInt(v) ==
    LET a == v.hi \div 1000
        b == v.hi % 1000
        t == a * 48576
        low == ((t % 1000) * 1000) + (b * 48576) + v.lo
        millions == v.hi + (t \div 1000) + (low \div 1000000)
        units == low % 1000000
    IN  IF millions = 0 THEN ToString(units) ELSE ToString(millions) \o Pad6(units)

KB == I64(0, 1024)
MB == I64(1, 0)
GB == I64(1024, 0)

(* --------------------------- UpdateDefaults ---------------------------- *)

\* UpdateDefaults is called at most MaxApply times on a definition.
MaxApply == 2

\* A map without entries (also a nil map: len is 0 and every lookup misses).
EmptyMap == [k \in {} |-> ""]

\* m with m[k] = v.
Put(m, k, v) == [x \in (DOMAIN m) \cup {k} |-> IF x = k THEN v ELSE m[x]]

\* A resource.Quantity: its integer value, and whether it counts thousandths.
Quantity(v, milli) == [v |-> v, milli |-> milli]

\* Quantity.Value(): the value as an int64, rounded up to a whole unit.
Value(q) == IF q.milli THEN I64(0, (q.v.lo + 999) \div 1000) ELSE q.v

resourceRequestCPU == "200m"
resourceRequestMemory == "1Gi"
resourceStorage == "1Gi"

\* resource.MustParse of the quantities the defaults are written in.
MustParse(str) ==
    IF str = "200m" THEN Quantity(I64(0, 200), TRUE)
    ELSE IF str = "1Gi" THEN Quantity(I64(1024, 0), FALSE)
    ELSE Quantity(I64(0, 0), FALSE)

\* ResourceList.Memory(): a pointer to the memory entry, or to a zero
\* quantity when the list has no memory entry; it is never nil.
Memory(requests) ==
    IF "memory" \in DOMAIN requests
    THEN [isNil |-> FALSE, q |-> requests["memory"]]
    ELSE [isNil |-> FALSE, q |-> Quantity(I64(0, 0), FALSE)]

GetLabels(c) == [app |-> "mysql-operator", mysql_cluster |-> c.Name]

NilAffinity == [isNil |-> TRUE]

\* The anti-affinity installed when none is set.
DefaultAntiAffinity(c) ==
    [isNil |-> FALSE,
     Preferred |-> << [Weight |-> 100, TopologyKey |-> "kubernetes.io/hostname",
                       MatchLabels |-> GetLabels(c)] >>]

\* PodSpec.UpdateDefaults
PodSpecUpdateDefaults(ps, o, c) ==
    LET p1 == IF ps.ImagePullPolicy = ""
              THEN [ps EXCEPT !.ImagePullPolicy = o.ImagePullPolicy]
              ELSE ps
        p2 == IF Cardinality(DOMAIN p1.Resources.Requests) = 0
              THEN [p1 EXCEPT !.Resources =
                        [Limits |-> EmptyMap,
                         Requests |-> [k \in {"cpu", "memory"} |->
                                          IF k = "cpu" THEN MustParse(resourceRequestCPU)
                                          ELSE MustParse(resourceRequestMemory)]]]
              ELSE p1
    IN  IF p2.Affinity.PodAntiAffinity.isNil
        THEN [p2 EXCEPT !.Affinity.PodAntiAffinity = DefaultAntiAffinity(c)]
        ELSE p2

\* VolumeSpec.UpdateDefaults
VolumeSpecUpdateDefaults(vs) ==
    LET v1 == IF Len(vs.AccessModes) = 0
              THEN [vs EXCEPT !.AccessModes = <<"ReadWriteOnce">>]
              ELSE vs
    IN  IF Cardinality(DOMAIN v1.Resources.Requests) = 0
        THEN [v1 EXCEPT !.Resources =
                  [Limits |-> EmptyMap,
                   Requests |-> [k \in {"storage"} |-> MustParse(resourceStorage)]]]
        ELSE v1

\* Mutant: a request of exactly 4 GiB falls in the upper tier.
BufferSize_StrictFour(mem) ==
    IF Less(mem, GB) THEN Times(128, MB)
    ELSE IF Less(mem, Times(4, GB)) THEN Quarters(2, mem)
    ELSE Quarters(3, mem)

\* The buffer pool size for a memory request of mem bytes.
BufferSize(mem) ==
    IF Less(mem, GB) THEN Times(128, MB)
    ELSE IF LessEq(mem, Times(4, GB)) THEN Quarters(2, mem)
    ELSE Quarters(3, mem)

\* The log file size for a memory request of mem bytes.
LogFileSize(mem) ==
    IF Less(mem, GB) THEN Times(48, MB)
    ELSE IF LessEq(mem, Times(4, GB)) THEN Times(128, MB)
    ELSE IF LessEq(mem, Times(8, GB)) THEN Times(512, GB)
    ELSE IF LessEq(mem, Times(16, GB)) THEN Times(1, GB)
    ELSE Times(2, GB)

\* set innodb-buffer-pool-size if not set
SetBufferPoolSize(conf, requests) ==
    IF "innodb-buffer-pool-size" \notin DOMAIN conf /\ ~Memory(requests).isNil
    THEN Put(conf, "innodb-buffer-pool-size",
             FormatInt(BufferSize(Value(Memory(requests).q))))
    ELSE conf

\* set innodb-log-file-size if not set
SetLogFileSize(conf, requests) ==
    IF "innodb-log-file-size" \notin DOMAIN conf /\ ~Memory(requests).isNil
    THEN Put(conf, "innodb-log-file-size",
             FormatInt(LogFileSize(Value(Memory(requests).q))))
    ELSE conf

\* Mutant: the sizing keys are computed before the pod defaults are installed,
\* and only from a memory entry that is there.
ClusterSpecUpdateDefaults_SizingFirst(cs, o, c) ==
    LET c1 == IF cs.MysqlVersion = ""
              THEN [cs EXCEPT !.MysqlVersion = o.MysqlImageTag]
              ELSE cs
        reqs == c1.PodSpec.Resources.Requests
        c2 == IF "memory" \in DOMAIN reqs
              THEN [c1 EXCEPT !.MysqlConf =
                        SetLogFileSize(SetBufferPoolSize(c1.MysqlConf, reqs), reqs)]
              ELSE c1
        c3 == [c2 EXCEPT !.PodSpec = PodSpecUpdateDefaults(c2.PodSpec, o, c)]
    IN  [c3 EXCEPT !.VolumeSpec = VolumeSpecUpdateDefaults(c3.VolumeSpec)]

\* Mutant: the sizing keys are computed from the requests as they came in, and
\* the pod defaults are installed after that.
ClusterSpecUpdateDefaults_PodLast(cs, o, c) ==
    LET c1 == IF cs.MysqlVersion = ""
              THEN [cs EXCEPT !.MysqlVersion = o.MysqlImageTag]
              ELSE cs
        c2 == IF Cardinality(DOMAIN c1.MysqlConf) = 0
              THEN [c1 EXCEPT !.MysqlConf = EmptyMap]
              ELSE c1
        c3 == [c2 EXCEPT !.MysqlConf =
                    SetBufferPoolSize(c2.MysqlConf, c2.PodSpec.Resources.Requests)]
        c4 == [c3 EXCEPT !.MysqlConf =
                    SetLogFileSize(c3.MysqlConf, c3.PodSpec.Resources.Requests)]
        c5 == [c4 EXCEPT !.PodSpec = PodSpecUpdateDefaults(c4.PodSpec, o, c)]
    IN  [c5 EXCEPT !.VolumeSpec = VolumeSpecUpdateDefaults(c5.VolumeSpec)]

\* ClusterSpec.UpdateDefaults: the spec after the call (the call returns nil).
ClusterSpecUpdateDefaults(cs, o, c) ==
    LET c1 == IF cs.MysqlVersion = ""
              THEN [cs EXCEPT !.MysqlVersion = o.MysqlImageTag]
              ELSE cs
        c2 == [c1 EXCEPT !.PodSpec = PodSpecUpdateDefaults(c1.PodSpec, o, c)]
        c3 == IF Cardinality(DOMAIN c2.MysqlConf) = 0
              THEN [c2 EXCEPT !.MysqlConf = EmptyMap]
              ELSE c2
        c4 == [c3 EXCEPT !.MysqlConf =
                    SetBufferPoolSize(c3.MysqlConf, c3.PodSpec.Resources.Requests)]
        c5 == [c4 EXCEPT !.MysqlConf =
                    SetLogFileSize(c4.MysqlConf, c4.PodSpec.Resources.Requests)]
    IN  [c5 EXCEPT !.VolumeSpec = VolumeSpecUpdateDefaults(c5.VolumeSpec)]

\* The memory requests tried, in GiB: every tier of both tables and its edges.
MemGiBs == {1, 2, 4, 6, 8, 16, 32}

\* Memory requests in bytes: 512 MiB, and each of MemGiBs with a byte less and more.
MemValues ==
    {Times(512, MB)} \cup {Plus(Times(g, GB), d) : g \in MemGiBs, d \in {-1, 0, 1}}

\* Pod resource requests: none, CPU only, memory only, CPU and memory.
RequestLists ==
    {EmptyMap, [k \in {"cpu"} |-> Quantity(I64(0, 500), TRUE)]}
        \cup {[k \in {"memory"} |-> Quantity(m, FALSE)] : m \in MemValues}
        \cup {[k \in {"cpu", "memory"} |->
                 IF k = "cpu" THEN Quantity(I64(0, 1), FALSE)
                 ELSE Quantity(Times(2, GB), FALSE)]}

LimitLists == {EmptyMap, [k \in {"memory"} |-> Quantity(Times(2, GB), FALSE)]}

ConfKeys == {"innodb-buffer-pool-size", "innodb-log-file-size", "max-connections"}

\* Configurations with any of ConfKeys already set by the user.
MysqlConfs == UNION {[keys -> {"1000"}] : keys \in SUBSET ConfKeys}

StorageLists(gib) == {EmptyMap, [k \in {"storage"} |-> Quantity(Times(gib, GB), FALSE)]}

\* The ClusterSpecs UpdateDefaults is tried on.
ClusterSpecs ==
    [MysqlVersion : {"", "5.6"},
     PodSpec : [ImagePullPolicy : {"", "IfNotPresent"},
                Resources : [Limits : LimitLists, Requests : RequestLists],
                Affinity : [PodAntiAffinity :
                              {NilAffinity, [isNil |-> FALSE, Preferred |-> <<>>]}]],
     MysqlConf : MysqlConfs,
     VolumeSpec : [AccessModes : {<<>>, <<"ReadWriteMany">>},
                   Resources : [Limits : StorageLists(16), Requests : StorageLists(8)]]]

\* A cluster definition whose spec is any of ClusterSpecs, before UpdateDefaults.
InitDefaults ==
    /\ cluster = [Name |-> "db", Namespace |-> "prod",
                  Spec |-> [SecretName |-> "the-secret"], Status |-> [ReadyNodes |-> 0]]
    /\ opt = [OrchestratorUri |-> "", MysqlImageTag |-> "5.7", ImagePullPolicy |-> "Always"]
    /\ InitSync
    /\ InitResolver
    /\ hist \in {<<cs>> : cs \in ClusterSpecs}
    /\ peer = NoPeer

\* MysqlCluster.UpdateDefaults is called on the definition.
UpdateDefaults ==
    /\ Len(hist) >= 1
    /\ Len(hist) <= MaxApply
    /\ hist' = Append(hist, ClusterSpecUpdateDefaults(hist[Len(hist)], opt, cluster))
    /\ UNCHANGED <<cluster, opt, syncVars, resolverVars, ctx, peer, called, prevSlaveHost,
                   prevCall>>

NextDefaults == UpdateDefaults

SpecDefaults == InitDefaults /\ [][NextDefaults]_vars

(* --------------------- properties of UpdateDefaults -------------------- *)

\* UpdateDefaults has been called on the definition.
Defaulted == Len(hist) >= 2

\* The spec before the first UpdateDefaults call, and after it.
SpecBefore == hist[1]
SpecAfter == hist[2]

\* The definition had a memory request before the first call.
HasMemoryRequest == "memory" \in DOMAIN SpecBefore.PodSpec.Resources.Requests

\* That memory request M, in bytes.
RequestedMemory == SpecBefore.PodSpec.Resources.Requests["memory"].v

GiB(n) == I64(n * 1024, 0)

\* a - b for a >= b.
Minus(a, b) ==
    IF a.lo >= b.lo THEN I64(a.hi - b.hi, a.lo - b.lo)
    ELSE I64(a.hi - b.hi - 1, (a.lo + Base) - b.lo)

\* floor(m / 2) and floor(m / 4).
HalfOf(m) == I64(m.hi \div 2, (((m.hi % 2) * Base) + m.lo) \div 2)
QuarterOf(m) == HalfOf(HalfOf(m))

\* M x 0.75 as a byte count: M - ceil(M / 4).
ThreeQuartersOf(m) == Minus(m, QuarterOf(Plus(m, 3)))

\* C11 as claimed: the log-file sizing table. With the key absent and a memory
\* request M, the value written is 48 MiB for M < 1 GiB, 128 MiB up to 4 GiB,
\* 512 MiB up to 8 GiB, 1 GiB up to 16 GiB and 2 GiB above, in decimal bytes.
C11_LogFileTable ==
    (Defaulted /\ HasMemoryRequest
        /\ "innodb-log-file-size" \notin DOMAIN SpecBefore.MysqlConf) =>
        /\ "innodb-log-file-size" \in DOMAIN SpecAfter.MysqlConf
        /\ SpecAfter.MysqlConf["innodb-log-file-size"] =
              (IF Less(RequestedMemory, GiB(1)) THEN "50331648"
               ELSE IF LessEq(RequestedMemory, GiB(4)) THEN "134217728"
               ELSE IF LessEq(RequestedMemory, GiB(8)) THEN "536870912"
               ELSE IF LessEq(RequestedMemory, GiB(16)) THEN "1073741824"
               ELSE "2147483648")

\* The buffer pool size of the table for a request of m bytes.
TableBufferPool(m) ==
    IF Less(m, GiB(1)) THEN I64(128, 0)
    ELSE IF LessEq(m, GiB(4)) THEN HalfOf(m)
    ELSE ThreeQuartersOf(m)

\* C12: the buffer-pool sizing table. With the key absent and a memory request
\* M, the value written is 128 MiB for M < 1 GiB, M x 0.5 for 1 GiB <= M <= 4 GiB
\* and M x 0.75 above, as a decimal count of whole bytes; M is in exactly one tier.
C12_BufferPoolTable ==
    (Defaulted /\ HasMemoryRequest
        /\ "innodb-buffer-pool-size" \notin DOMAIN SpecBefore.MysqlConf) =>
        LET m == RequestedMemory
            written == SpecAfter.MysqlConf["innodb-buffer-pool-size"]
            tiers == <<Less(m, GiB(1)),
                       LessEq(GiB(1), m) /\ LessEq(m, GiB(4)),
                       Less(GiB(4), m)>>
        IN  /\ "innodb-buffer-pool-size" \in DOMAIN SpecAfter.MysqlConf
            /\ written = FormatInt(TableBufferPool(m))
            /\ Cardinality({t \in 1..3 : tiers[t]}) = 1
            /\ m = I64(512, 0) => written = "134217728"
            /\ m = GiB(2) => written = "1073741824"
            /\ m = GiB(4) => written = "2147483648"
            /\ m = GiB(6) => written = "4831838208"
            /\ m = GiB(32) => written = "25769803776"

\* C12 witness: a request of exactly 4 GiB got a buffer pool of 2 GiB.
C12_Witness ==
    /\ Defaulted
    /\ HasMemoryRequest
    /\ RequestedMemory = GiB(4)
    /\ "innodb-buffer-pool-size" \notin DOMAIN SpecBefore.MysqlConf
    /\ SpecAfter.MysqlConf["innodb-buffer-pool-size"] = "2147483648"

\* C13: idempotence. A further UpdateDefaults call on a definition that went
\* through UpdateDefaults leaves it exactly as it was.
C13_Idempotent == \A k \in 2..(Len(hist) - 1) : hist[k + 1] = hist[k]

\* C13 witness: the first call filled every kind of field, the second was made.
C13_Witness ==
    /\ Len(hist) >= 3
    /\ SpecBefore.MysqlVersion = ""
    /\ SpecBefore.PodSpec.ImagePullPolicy = ""
    /\ SpecBefore.PodSpec.Resources.Requests = EmptyMap
    /\ SpecBefore.PodSpec.Affinity.PodAntiAffinity.isNil
    /\ SpecBefore.MysqlConf = EmptyMap
    /\ SpecBefore.VolumeSpec.AccessModes = <<>>
    /\ SpecBefore.VolumeSpec.Resources.Requests = EmptyMap
    /\ hist[2] # hist[1]

\* C14 as claimed: the defaulting frame. Whatever was set before the call is
\* unchanged after it: version, pull policy, pod requests and limits,
\* anti-affinity, volume access modes and resources, every configuration key.
C14_Frame ==
    Defaulted =>
        /\ SpecBefore.MysqlVersion # "" => SpecAfter.MysqlVersion = SpecBefore.MysqlVersion
        /\ SpecBefore.PodSpec.ImagePullPolicy # "" =>
              SpecAfter.PodSpec.ImagePullPolicy = SpecBefore.PodSpec.ImagePullPolicy
        /\ SpecBefore.PodSpec.Resources.Requests # EmptyMap =>
              SpecAfter.PodSpec.Resources.Requests = SpecBefore.PodSpec.Resources.Requests
        /\ SpecBefore.PodSpec.Resources.Limits # EmptyMap =>
              SpecAfter.PodSpec.Resources.Limits = SpecBefore.PodSpec.Resources.Limits
        /\ ~SpecBefore.PodSpec.Affinity.PodAntiAffinity.isNil =>
              SpecAfter.PodSpec.Affinity = SpecBefore.PodSpec.Affinity
        /\ SpecBefore.VolumeSpec.AccessModes # <<>> =>
              SpecAfter.VolumeSpec.AccessModes = SpecBefore.VolumeSpec.AccessModes
        /\ SpecBefore.VolumeSpec.Resources.Requests # EmptyMap =>
              SpecAfter.VolumeSpec.Resources.Requests = SpecBefore.VolumeSpec.Resources.Requests
        /\ SpecBefore.VolumeSpec.Resources.Limits # EmptyMap =>
              SpecAfter.VolumeSpec.Resources.Limits = SpecBefore.VolumeSpec.Resources.Limits
        /\ \A k \in DOMAIN SpecBefore.MysqlConf :
              /\ k \in DOMAIN SpecAfter.MysqlConf
              /\ SpecAfter.MysqlConf[k] = SpecBefore.MysqlConf[k]

\* C15 as claimed: the sizing precondition. When the pod resource requests are
\* set but hold no memory entry, UpdateDefaults adds neither sizing key.
C15_SizingNeedsMemory ==
    (Defaulted /\ SpecBefore.PodSpec.Resources.Requests # EmptyMap /\ ~HasMemoryRequest) =>
        \A k \in {"innodb-buffer-pool-size", "innodb-log-file-size"} :
            k \notin DOMAIN SpecBefore.MysqlConf => k \notin DOMAIN SpecAfter.MysqlConf

(* ------------------------ Sync and its context ------------------------- *)

\* The statuses the syncFn results are drawn from where several calls are
\* followed: one that records an event and one that does not.
FewSyncStates == {statusCreated, statusUpToDate}

\* The caller cancels the context it handed to Sync: before the call, or while
\* a unit before the fifth runs (the units invoked so far are remembered).
Cancel ==
    /\ ~ctx.done
    /\ pc \in {"new", "loop"}
    /\ ctx' = [done |-> TRUE, at |-> Len(invoked)]
    /\ UNCHANGED <<cluster, opt, syncVars, resolverVars, hist, peer, called, prevSlaveHost,
                   prevCall>>

\* One Sync call whose context the caller may cancel. Sync never reads ctx.
NextCancel ==
    \/ Cancel
    \/ SyncBegin
    \/ \E state \in FewSyncStates, err \in ErrMsgs \cup {Nil} : SyncComponent(state, err)
    \/ \E err \in ErrMsgs \cup {Nil} : SyncDiscover(err)
    \/ SyncReturnNil

SpecCancel == Init /\ [][NextCancel]_vars

\* C16 as claimed: cooperative cancellation. Once the context is cancelled,
\* before the call or while unit i runs, the call goes no further than the next
\* check point: no unit after i (after the first, when cancelled before the
\* call) is invoked and no Discover call is made.
C16_Cancellation ==
    ctx.done =>
        /\ Len(invoked) <= (IF ctx.at = 0 THEN 1 ELSE ctx.at)
        /\ discovered = <<>>

(* ------------------------- repeated Sync calls ------------------------- *)

\* Mutant: the next call takes up the list where the last call left it.
StartIndex_Resume(last) == last

\* Where the loop of a Sync call starts in the list getComponents() builds for
\* it; last is where the loop of the call before stopped.
StartIndex(last) == 1

\* The caller builds a factory again and calls Sync again on the same cluster.
NewAgain ==
    /\ pc = "done"
    /\ prevCall' = [invoked |-> invoked, ret |-> ret]
    /\ pc' = "new"
    /\ idx' = StartIndex(idx)
    /\ invoked' = <<>>
    /\ results' = <<>>
    /\ events' = <<>>
    /\ regI' = 0
    /\ discovered' = <<>>
    /\ ret' = Pending
    /\ UNCHANGED <<cluster, opt, resolverVars, hist, ctx, peer, called, prevSlaveHost>>

NextRepeat ==
    \/ NewAgain
    \/ SyncBegin
    \/ \E state \in FewSyncStates, err \in ErrMsgs \cup {Nil} : SyncComponent(state, err)
    \/ \E err \in ErrMsgs \cup {Nil} : SyncDiscover(err)
    \/ SyncReturnNil

SpecRepeat == Init /\ [][NextRepeat]_vars

\* C20: no resumption state. In a Sync call made after another one, whatever
\* that one did, the units invoked are again a prefix of the full order from
\* the secret on, every unit before the last invoked one having succeeded in
\* this call; the call returns nil only after all five, an error only for the
\* unit it invoked last.
C20_NoResumption ==
    prevCall.ret # Pending =>
        /\ invoked = SubSeq(UnitOrder, 1, Len(invoked))
        /\ Len(results) = Len(invoked)
        /\ \A k \in 1..(Len(invoked) - 1) : results[k].err = Nil
        /\ (pc = "done" /\ ret = Nil) => Len(invoked) = Len(UnitOrder)
        /\ (pc = "done" /\ ret # Nil) => results[Len(invoked)].err # Nil

\* C20 witness: the call before failed at the third unit; this one ran all five.
C20_Witness ==
    /\ Len(prevCall.invoked) = 3
    /\ prevCall.ret \notin {Nil, Pending}
    /\ pc = "done"
    /\ ret = Nil
    /\ invoked = UnitOrder

(* -------------------------- member hostnames --------------------------- *)

\* <workloadName>-<i>.<networkEndpointName>.<scope> for member i of the cluster.
ScopedHost(i) ==
    cluster.Name \o "-mysql-" \o ToString(i) \o "." \o cluster.Name \o "-mysql." \o
        cluster.Namespace

\* The member whose hostname is the static default of GetHealtySlaveHost.
StaticSecondaryMember ==
    IF cluster.Status.ReadyNodes < 1 THEN 0 ELSE cluster.Status.ReadyNodes - 1

\* C18 as claimed: every hostname derived for member i, the host handed to
\* Discover and the static default either resolver returns, has the form
\* <name>-mysql-<i>.<name>-mysql.<namespace>.
C18_HostnameForm ==
    /\ \A k \in 1..Len(discovered) : discovered[k].host = ScopedHost(k - 1)
    /\ (masterHost # NoHost /\ (GetOrcUri = "" \/ orcMaster.err # Nil)) =>
            masterHost = ScopedHost(0)
    /\ (slaveHost # NoHost /\ (GetOrcUri = "" \/ orcReplicas.err # Nil \/ Qualifying = {})) =>
            slaveHost = ScopedHost(StaticSecondaryMember)

(* --------------------- sequences of resolver calls --------------------- *)

MaxSeqReplicas == 1

\* What ClusterOSCReplicas can return in a sequence of calls.
SeqReplicaAnswers ==
    [err : ErrMsgs, replicas : {<<>>}]
        \cup [err : {Nil}, replicas : ReplicaLists(MaxSeqReplicas)]

\* Between two calls the controller that owns the cluster records another
\* number of ready nodes in its status.
StatusChange(n) ==
    /\ n # cluster.Status.ReadyNodes
    /\ cluster' = [cluster EXCEPT !.Status.ReadyNodes = n]
    /\ called' = "none"
    /\ UNCHANGED <<opt, syncVars, resolverVars, hist, ctx, peer, prevSlaveHost, prevCall>>

\* One more GetHealtySlaveHost call; what the call before returned is kept.
HealtySlaveHostNext(ans) ==
    /\ orcReplicas' = ans
    /\ slaveQueried' = GetHealtySlaveHost(cluster, GetOrcUri, ans).queried
    /\ slaveHost' = GetHealtySlaveHost(cluster, GetOrcUri, ans).host
    /\ prevSlaveHost' = slaveHost
    /\ called' = "slave"
    /\ UNCHANGED <<cluster, opt, syncVars, orcMaster, masterQueried, masterHost, hist, ctx,
                   peer, prevCall>>

\* One more GetMasterHost call.
MasterHostNext(ans) ==
    /\ orcMaster' = ans
    /\ masterQueried' = GetMasterHost(cluster, GetOrcUri, ans).queried
    /\ masterHost' = GetMasterHost(cluster, GetOrcUri, ans).host
    /\ called' = "master"
    /\ UNCHANGED <<cluster, opt, syncVars, orcReplicas, slaveQueried, slaveHost, hist, ctx,
                   peer, prevSlaveHost, prevCall>>

NextResolverSeq ==
    \/ \E n \in 0..MaxReady : StatusChange(n)
    \/ \E ans \in SeqReplicaAnswers : HealtySlaveHostNext(ans)
    \/ \E ans \in MasterAnswers : MasterHostNext(ans)

SpecResolverSeq == Init /\ [][NextResolverSeq]_vars

\* What the current ready-count and the latest replica answer determine.
ExpectedSecondary ==
    IF cluster.Status.ReadyNodes >= 1 /\ GetOrcUri # "" /\ orcReplicas.err = Nil
            /\ Qualifying # {}
    THEN LastQualifyingHost
    ELSE StaticSecondary

\* What the latest master answer determines.
ExpectedPrimary ==
    IF GetOrcUri # "" /\ orcMaster.err = Nil
    THEN orcMaster.inst.Key.Hostname
    ELSE MemberPodHost(0)

\* C19: no caching in the resolver. In every sequence of resolver calls and
\* ready-count changes, each call returns what the ready-count at the time of
\* the call and the orchestrator's answer to that call determine, whatever the
\* calls before returned, and leaves the cluster as it was.
C19_NoCaching ==
    [][/\ called' = "slave" => (slaveHost' = ExpectedSecondary' /\ cluster' = cluster)
       /\ called' = "master" => (masterHost' = ExpectedPrimary' /\ cluster' = cluster)]_vars

\* C19 witness: a call returned the replica the orchestrator listed; in the next
\* call the query failed and the static default came back.
C19_Witness ==
    /\ called = "slave"
    /\ prevSlaveHost = OrcHostname(1)
    /\ GetOrcUri # ""
    /\ slaveQueried
    /\ orcReplicas.err # Nil
    /\ slaveHost = StaticSecondary
    /\ slaveHost # prevSlaveHost

(* ------------------- two Sync calls running together ------------------- *)

\* The ready-counts of the two clusters synced together.
ConcReadyNodes == {1, 2}

\* Mutant: one loop position for the whole process, the other call's.
LoopPosition_Shared(own, other) == other

\* Where the loop of a Sync call stands in its own list of components: own is
\* the position of the call itself, other that of the call running beside it.
LoopPosition(own, other) == own

\* Two factories, built for two different clusters; peer is the second one.
InitConcurrent ==
    /\ cluster \in {c \in Clusters : c.Name = "db" /\ c.Status.ReadyNodes \in ConcReadyNodes}
    /\ opt \in [OrchestratorUri : OrcUris]
    /\ InitSync
    /\ InitResolver
    /\ hist = <<>>
    /\ peer \in {NewFactory(c) :
                    c \in {d \in Clusters : d.Name = "shop"
                                            /\ d.Status.ReadyNodes \in ConcReadyNodes}}

\* Sync is called on the second factory.
PeerBegin ==
    /\ peer.pc = "new"
    /\ peer' = [peer EXCEPT !.pc = "loop"]
    /\ UNCHANGED <<cluster, opt, syncVars, resolverVars, hist, ctx, called, prevSlaveHost,
                   prevCall>>

\* One iteration of the second call's loop over its components.
PeerComponent(state, err) ==
    /\ peer.pc = "loop"
    /\ LET comps == getComponents(peer.cluster)
           i == LoopPosition(peer.idx, idx)
       IN /\ i <= Len(comps)
          /\ peer' = [peer EXCEPT
                !.invoked = Append(@, comps[i].alias),
                !.results = Append(@, [state |-> state, err |-> err]),
                !.events = SyncEvents(@, comps[i], state, err),
                !.ret = IF SyncReturnsOn(err) THEN WrapError(comps[i], err) ELSE @,
                !.idx = IF SyncReturnsOn(err) THEN i ELSE i + 1,
                !.pc = IF SyncReturnsOn(err) THEN "done"
                       ELSE IF i < Len(comps) THEN "loop" ELSE "register"]
    /\ UNCHANGED <<cluster, opt, syncVars, resolverVars, hist, ctx, called, prevSlaveHost,
                   prevCall>>

\* One iteration of the second call's registration loop.
PeerDiscover(err) ==
    /\ peer.pc = "register"
    /\ RegistersNodes(GetOrcUri)
    /\ MoreToDiscover(peer.regI, peer.cluster)
    /\ peer' = [peer EXCEPT
            !.discovered = Append(@, [host |-> getHostForReplica(peer.cluster, peer.regI),
                                      err |-> err]),
            !.regI = @ + 1,
            !.ret = ReturnOnDiscover(err),
            !.pc = IF ReturnOnDiscover(err) = Pending THEN "register" ELSE "done"]
    /\ UNCHANGED <<cluster, opt, syncVars, resolverVars, hist, ctx, called, prevSlaveHost,
                   prevCall>>

\* The end of the second call.
PeerReturnNil ==
    /\ peer.pc = "register"
    /\ ~(RegistersNodes(GetOrcUri) /\ MoreToDiscover(peer.regI, peer.cluster))
    /\ peer' = [peer EXCEPT !.ret = Nil, !.pc = "done"]
    /\ UNCHANGED <<cluster, opt, syncVars, resolverVars, hist, ctx, called, prevSlaveHost,
                   prevCall>>

\* The steps of the two calls, interleaved in any order.
NextConcurrent ==
    \/ SyncBegin
    \/ \E state \in FewSyncStates, err \in ErrMsgs \cup {Nil} : SyncComponent(state, err)
    \/ \E err \in ErrMsgs \cup {Nil} : SyncDiscover(err)
    \/ SyncReturnNil
    \/ PeerBegin
    \/ \E state \in FewSyncStates, err \in ErrMsgs \cup {Nil} : PeerComponent(state, err)
    \/ \E err \in ErrMsgs \cup {Nil} : PeerDiscover(err)
    \/ PeerReturnNil

SpecConcurrent == InitConcurrent /\ [][NextConcurrent]_vars

\* The first factory, as a record like the second one.
Me ==
    [cluster |-> cluster, pc |-> pc, idx |-> idx, invoked |-> invoked, results |-> results,
     events |-> events, regI |-> regI, discovered |-> discovered, ret |-> ret]

\* The event kind the k-th unit's result r calls for; "" when it calls for none.
KindFor(k, r) ==
    IF r.err # Nil THEN FailureKind[k]
    ELSE IF r.state \in {statusCreated, statusUpdated} THEN UpdateKind[k] ELSE ""

RecordsEvent(kind) == kind # ""

\* The event kinds a call running alone records for the unit results res.
KindsAlone(res) == SelectSeq([k \in 1..Len(res) |-> KindFor(k, res[k])], RecordsEvent)

\* What a call of factory f does when it runs alone, given the results its own
\* units and its own Discover calls returned.
AsAlone(f) ==
    LET failed == {k \in 1..Len(f.results) : f.results[k].err # Nil}
        allOk == Len(f.results) = Len(UnitOrder) /\ failed = {}
    IN /\ f.invoked = SubSeq(UnitOrder, 1, Len(f.results))
       /\ \A k \in failed : k = Len(f.results)
       /\ [e \in 1..Len(f.events) |-> f.events[e].reason] = KindsAlone(f.results)
       /\ \A k \in 1..Len(f.discovered) :
            f.discovered[k].host =
                f.cluster.Name \o "-mysql-" \o ToString(k - 1) \o "." \o f.cluster.Name
                    \o "-mysql." \o f.cluster.Namespace
       /\ f.discovered # <<>> => (allOk /\ GetOrcUri # "")
       /\ Len(f.discovered) <= f.cluster.Status.ReadyNodes
       /\ f.pc # "done" => (f.ret = Pending /\ failed = {})
       /\ f.pc = "done" =>
            IF failed = {}
            THEN /\ f.ret = Nil
                 /\ allOk
                 /\ GetOrcUri # "" => Len(f.discovered) = f.cluster.Status.ReadyNodes
            ELSE f.ret \notin {Nil, Pending}

\* C17: isolation of concurrent Sync calls. Under every interleaving of the
\* steps of two calls for two different clusters, each call's units, events,
\* Discover calls and return value are those it has when it runs alone with the
\* same results of its own units, whatever the other call does; and no step
\* writes the options shared by the process.
C17_Isolation ==
    /\ [](peer.pc # "none" => (AsAlone(Me) /\ AsAlone(peer)))
    /\ [][opt' = opt]_vars

\* C17 witness: the first call failed at its second unit; the second call, for
\* another cluster, ran all five units, registered its nodes and returned nil.
C17_Witness ==
    /\ peer.pc = "done"
    /\ peer.cluster.Name # cluster.Name
    /\ pc = "done"
    /\ ret # Nil
    /\ Len(invoked) = 2
    /\ peer.ret = Nil
    /\ peer.invoked = UnitOrder
    /\ Len(peer.events) = 3
    /\ Len(peer.discovered) = 2

(* --------------------------- defaulting order -------------------------- *)

\* The definition came with no pod resource requests and neither sizing key.
NothingToSizeFrom ==
    /\ DOMAIN SpecBefore.PodSpec.Resources.Requests = {}
    /\ "innodb-buffer-pool-size" \notin DOMAIN SpecBefore.MysqlConf
    /\ "innodb-log-file-size" \notin DOMAIN SpecBefore.MysqlConf

\* C21: defaulting order. For a definition with no pod resource requests and
\* neither sizing key set, one UpdateDefaults call sets the memory request to
\* 1 GiB and derives both keys from it: innodb-buffer-pool-size is 536870912
\* (512 MiB) and innodb-log-file-size is 134217728 (128 MiB).
C21_DefaultingOrder ==
    (Defaulted /\ NothingToSizeFrom) =>
        /\ "memory" \in DOMAIN SpecAfter.PodSpec.Resources.Requests
        /\ Value(SpecAfter.PodSpec.Resources.Requests["memory"]) = GiB(1)
        /\ "innodb-buffer-pool-size" \in DOMAIN SpecAfter.MysqlConf
        /\ SpecAfter.MysqlConf["innodb-buffer-pool-size"] = "536870912"
        /\ "innodb-log-file-size" \in DOMAIN SpecAfter.MysqlConf
        /\ SpecAfter.MysqlConf["innodb-log-file-size"] = "134217728"

\* C21 witness: a definition with only max-connections configured and no
\* requests was defaulted; the floor and both keys derived from it are there.
C21_Witness ==
    /\ Defaulted
    /\ NothingToSizeFrom
    /\ DOMAIN SpecBefore.MysqlConf = {"max-connections"}
    /\ Value(SpecAfter.PodSpec.Resources.Requests["memory"]) = GiB(1)
    /\ SpecAfter.MysqlConf["innodb-buffer-pool-size"] = "536870912"
    /\ SpecAfter.MysqlConf["innodb-log-file-size"] = "134217728"
    /\ SpecAfter.MysqlConf["max-connections"] = "1000"

====
